---- MODULE Spec2Model ----
(***************************************************************************)
(* The lowering driver of the Azula compiler (src/main.rs) and the type    *)
(* resolver of its AST (src/parser/ast.rs), as a state machine.            *)
(*                                                                         *)
(* The state is the parse tree handed over by the parser, the Compiler     *)
(* struct (the LLVM module with its functions and their instructions, the  *)
(* name -> stack-slot table ptrs) and the position of main() in its loop.  *)
(* The codegen module (Compiler::add_print_funcs, Compiler::gen_stmt and   *)
(* the expression lowering it calls) is not among the sources; it is       *)
(* modelled from sections 4.2, 4.3 and 4.5 of the specification.           *)
(***************************************************************************)
EXTENDS Integers, Sequences, FiniteSets, TLC

VARIABLES
    parse_tree,   \* the top-level statements produced by the parser
    depth,        \* parser: number of If blocks still open at the end of the text
    pc,           \* where main() is: parse, start, loop, params, body, last,
                  \* done, panic (and resolve, for the type resolver alone)
    idx,          \* 1-based position of `statement` in `for statement in parse_tree`
    module,       \* compiler.module: the functions in the order they were added
    ptrs,         \* compiler.ptrs: name -> stack slot
    allocas,      \* number of build_alloca calls so far (a slot is its number)
    pi,           \* position in `for (index, (typ, name)) in p.iter().enumerate()`
    bi,           \* position in `for stmt in &body`
    err,          \* the panic message, NoPanic while running
    output,       \* TRUE once the module has been printed to .build/<name>.ll
    annotations,  \* type resolver: the annotation strings to resolve
    resolved      \* type resolver: Type::from_string of each annotation so far

vars == <<parse_tree, depth, pc, idx, module, ptrs, allocas, pi, bi, err, output,
          annotations, resolved>>

\* ------------------------------------------------------------------ bounds

\* Number of AST nodes (functions, parameters, return types, statements) of
\* a parse tree.
MaxWeight == 4
\* Number of annotation strings handed to the type resolver in one run.
MaxAnnotations == 2

\* ------------------------------------------------------------------ Type

Integer(size) == [kind |-> "Integer", size |-> size]
Float(size) == [kind |-> "Float", size |-> size]
StringType == [kind |-> "String", size |-> 0]
BooleanType == [kind |-> "Boolean", size |-> 0]
\* Option<Type>::None
NoType == [kind |-> "None", size |-> 0]

from_string_wide(typ) ==
    CASE typ \in {"int", "int32", "int64"} -> Integer(64)
      [] typ \in {"float", "float32"} -> Float(32)
      [] typ = "float64" -> Float(64)
      [] typ = "string" -> StringType
      [] typ = "bool" -> BooleanType
      [] OTHER -> NoType

from_string(typ) ==
    CASE typ \in {"int", "int32"} -> Integer(32)
      [] typ = "int64" -> Integer(64)
      [] typ \in {"float", "float32"} -> Float(32)
      [] typ = "float64" -> Float(64)
      [] typ = "string" -> StringType
      [] typ = "bool" -> BooleanType
      [] OTHER -> NoType

\* ------------------------------------------------------------------ Expr

Expr(tag, name, args) == [tag |-> tag, name |-> name, args |-> args]
Number == Expr("Number", "", <<>>)
Identifier(name) == Expr("Identifier", name, <<>>)
BooleanLit == Expr("Boolean", "", <<>>)
StringLit == Expr("String", "", <<>>)
Op(l, opcode, r) == Expr("Op", opcode, <<l, r>>)
FunctionCall(name, args) == Expr("FunctionCall", name, args)
\* Option<Box<Expr>>::None
NoExpr == Expr("None", "", <<>>)

\* ------------------------------------------------------------- Statement

\* Option<Vec<(Type, String)>>
NoParams == [some |-> FALSE, list |-> <<>>]
SomeParams(list) == [some |-> TRUE, list |-> list]
\* Option<String> of Let
NoAnnotation == [some |-> FALSE, s |-> ""]
SomeAnnotation(s) == [some |-> TRUE, s |-> s]

Statement(tag, name, typ, expr, params, ret, body) ==
    [tag |-> tag, name |-> name, typ |-> typ, expr |-> expr,
     params |-> params, ret |-> ret, body |-> body]
Let(typ, name, expr) == Statement("Let", name, typ, expr, NoParams, NoType, <<>>)
Function(name, params, ret, body) ==
    Statement("Function", name, NoAnnotation, NoExpr, params, ret, body)
Return(expr) == Statement("Return", "", NoAnnotation, expr, NoParams, NoType, <<>>)
Expression(expr) ==
    Statement("Expression", "", NoAnnotation, expr, NoParams, NoType, <<>>)
If(cond, body) == Statement("If", "", NoAnnotation, cond, NoParams, NoType, body)

\* ---------------------------------------------------------------- inputs

\* What the source text is made of. The parser (src/main.rs:34) turns the
\* text into parse_tree; it is modelled as reading the text left to right,
\* one AST node at a time, any text of at most MaxWeight nodes (a function, a
\* parameter, a return type and a statement count one each).
FuncNames == {"main", "f"}
ParamDecls ==
    {<<Integer(32), "x">>, <<Float(64), "x">>, <<BooleanType, "y">>,
     <<Integer(16), "y">>, <<Float(16), "x">>}
RetTypes == {Integer(32), Integer(8), Float(128)}
SimpleStmts ==
    {Return(NoExpr), Return(Number), Return(FunctionCall("f", <<>>)),
     Expression(FunctionCall("f", <<>>)),
     Expression(FunctionCall("printf", <<>>)),
     Expression(Identifier("x")),
     Let(NoAnnotation, "x", Number)}
Conds == {BooleanLit}
NonFunctions == {Let(NoAnnotation, "x", Number)}

RECURSIVE Weight(_)
Weight(block) ==
    IF block = <<>> THEN 0
    ELSE LET s == Head(block)
         IN  1 + Len(s.params.list) + (IF s.ret = NoType THEN 0 ELSE 1)
               + Weight(s.body) + Weight(Tail(block))

\* The block with s added at the end of its innermost open If body, d levels
\* down.
RECURSIVE AppendAt(_, _, _)
AppendAt(block, d, s) ==
    IF d = 0 THEN Append(block, s)
    ELSE [block EXCEPT ![Len(block)].body = AppendAt(@, d - 1, s)]

\* ------------------------------------------------------ types in the IR

\* A panic message: its text in pieces, each a string or the code of a
\* character no string here can hold (96, the backtick). No pieces: no panic.
NoPanic == <<>>
UnimplementedInt == <<"unimplemented int size">>
UnimplementedFloat == <<"unimplemented float size">>
NonFunctionAtTopLevel == <<"non-function at top level">>
UnwrapOnNone ==
    <<"called ", 96, "Option::unwrap()", 96, " on a ", 96, "None", 96, " value">>
UndefinedReference == <<"undefined reference">>
UndeclaredFunction == <<"undeclared function">>
UnresolvedType == <<"unresolved type">>

\* The panic of the `match *typ` in main(), NoPanic when the type has an IR type.
Unimplemented(typ) ==
    IF typ.kind = "Integer" /\ typ.size \notin {32, 64} THEN UnimplementedInt
    ELSE IF typ.kind = "Float" /\ typ.size \notin {32, 64} THEN UnimplementedFloat
    ELSE NoPanic

\* The IR type the `match *typ` in main() yields.
BasicTypeEnum(typ) ==
    CASE typ.kind = "Integer" /\ typ.size = 32 -> "i32"
      [] typ.kind = "Integer" /\ typ.size = 64 -> "i64"
      [] typ.kind = "Float" /\ typ.size = 32 -> "f32"
      [] typ.kind = "Float" /\ typ.size = 64 -> "f64"
      [] typ.kind = "Boolean" -> "i1"
      [] typ.kind = "String" -> "i8*"
      [] OTHER -> "void"

\* The first panic of the parameter types, in order, and then of the return
\* type; NoPanic when the signature translates.
SignaturePanicParamsOnly(params, ret) ==
    LET bad == {i \in 1..Len(params.list) : Unimplemented(params.list[i][1]) # NoPanic}
    IN  IF bad # {}
        THEN Unimplemented(params.list[CHOOSE i \in bad : \A j \in bad : i <= j][1])
        ELSE NoPanic

SignaturePanic(params, ret) ==
    LET bad == {i \in 1..Len(params.list) : Unimplemented(params.list[i][1]) # NoPanic}
    IN  IF params.some /\ bad # {}
        THEN Unimplemented(params.list[CHOOSE i \in bad : \A j \in bad : i <= j][1])
        ELSE Unimplemented(ret)

LinkageAlwaysPrivate(name) == "Private"

\* Some(Linkage::Private), or None (external) for main.
LinkageOf(name) == IF name = "main" THEN "External" ELSE "Private"

\* ------------------------------------------------------------ the module

\* An IR value: a constant, an incoming argument (n = its index from 0), the
\* result of instruction n of the current function, or nothing.
Value(v, n) == [v |-> v, n |-> n]
Void == Value("void", 0)

\* A stack slot (the PointerValue of an alloca): its number and its type.
Slot(n, ty) == [n |-> n, ty |-> ty]
NoSlot == Slot(0, "void")

Inst(op, ty, slot, val, name, args) ==
    [op |-> op, ty |-> ty, slot |-> slot, val |-> val, name |-> name,
     args |-> args]
Alloca(slot, name) == Inst("alloca", slot.ty, slot, Void, name, <<>>)
Store(slot, val) == Inst("store", "void", slot, val, "", <<>>)
Load(slot, name) == Inst("load", slot.ty, slot, Void, name, <<>>)
Ret(val) == Inst("ret", "void", NoSlot, val, "", <<>>)
Call(name, ty, args) == Inst("call", ty, NoSlot, Void, name, args)
BinOp(opcode, ty, l, r) == Inst("op", ty, NoSlot, Void, opcode, <<l, r>>)
CondBr(val) == Inst("condbr", "void", NoSlot, val, "", <<>>)
Br(label) == Inst("br", "void", NoSlot, Void, label, <<>>)
Label(label) == Inst("label", "void", NoSlot, Void, label, <<>>)

\* A function of the module. uniq counts the functions of that name added
\* before it: LLVM keeps the name for the first and renames the others.
LlvmFunction(name, uniq, linkage, params, ret) ==
    [name |-> name, uniq |-> uniq, linkage |-> linkage, params |-> params,
     ret |-> ret, insts |-> <<>>]

add_function_unnamed(m, name, params, ret, linkage) ==
    Append(m, LlvmFunction("", Len(m), linkage, params, ret))

\* module.add_function
add_function(m, name, params, ret, linkage) ==
    Append(m, LlvmFunction(name,
                           Cardinality({k \in 1..Len(m) : m[k].name = name}),
                           linkage, params, ret))

\* module.get_function: the index of the function of that name, 0 for None
get_function(m, name) ==
    LET found == {k \in 1..Len(m) : m[k].name = name /\ m[k].uniq = 0}
    IN  IF found = {} THEN 0 ELSE CHOOSE k \in found : TRUE

EmptyPtrs == [n \in {} |-> NoSlot]
InsertIfAbsent(map, key, value) ==
    [n \in DOMAIN map \cup {key} |-> IF n \in DOMAIN map THEN map[n] ELSE value]

\* HashMap::insert
Insert(map, key, value) ==
    [n \in DOMAIN map \cup {key} |-> IF n = key THEN value ELSE map[n]]

\* ---------------------------------------------------- codegen (from the spec)

\* The built-ins Compiler::add_print_funcs declares (section 4.5, 6).
PrintFuncs == <<"printf", "puts">>

RECURSIVE DeclareAll(_, _)
DeclareAll(m, names) ==
    IF names = <<>> THEN m
    ELSE DeclareAll(add_function(m, Head(names), <<"i8*">>, "i32", "External"),
                    Tail(names))

\* What lowering works on: the instructions of the function being built,
\* the storage table, the slots allocated so far, and the panic, if any.
Gen(insts, table, slots, panic) ==
    [insts |-> insts, ptrs |-> table, allocas |-> slots, err |-> panic]
Emit(st, inst) == [st EXCEPT !.insts = Append(@, inst)]
Panic(st, msg) == [st EXCEPT !.err = msg]
\* The value of the instruction emitted last
Result(st) == Value("reg", Len(st.insts))
TypeOfValue(st, val) ==
    CASE val.v = "reg" -> st.insts[val.n].ty
      [] val.v = "f64" -> "f64"
      [] val.v = "i1" -> "i1"
      [] val.v = "str" -> "i8*"
      [] OTHER -> "void"

\* Section 4.3: a block is over once it has its terminator.
Terminated(insts) ==
    Len(insts) > 0 /\ insts[Len(insts)].op \in {"ret", "br"}

\* Section 4.2: lower(expr, storage_table) -> IRValue, or a panic.
RECURSIVE gen_expr(_, _, _), gen_args(_, _, _, _)
gen_expr(m, st, e) ==
    CASE st.err # NoPanic -> [st |-> st, val |-> Void]
      [] e.tag = "Number" -> [st |-> st, val |-> Value("f64", 0)]
      [] e.tag = "Boolean" -> [st |-> st, val |-> Value("i1", 0)]
      [] e.tag = "String" -> [st |-> st, val |-> Value("str", 0)]
      [] e.tag = "Identifier" ->
            IF e.name \in DOMAIN st.ptrs
            THEN LET st1 == Emit(st, Load(st.ptrs[e.name], e.name))
                 IN  [st |-> st1, val |-> Result(st1)]
            ELSE [st |-> Panic(st, UndefinedReference), val |-> Void]
      [] e.tag = "Op" ->
            LET l == gen_expr(m, st, e.args[1])
                r == gen_expr(m, l.st, e.args[2])
                st1 == Emit(r.st, BinOp(e.name, TypeOfValue(l.st, l.val),
                                        l.val, r.val))
            IN  IF r.st.err # NoPanic THEN [st |-> r.st, val |-> Void]
                ELSE [st |-> st1, val |-> Result(st1)]
      [] e.tag = "FunctionCall" ->
            LET callee == get_function(m, e.name)
                a == gen_args(m, st, e.args, <<>>)
                st1 == Emit(a.st, Call(e.name, m[callee].ret, a.vals))
            IN  IF callee = 0
                THEN [st |-> Panic(st, UndeclaredFunction), val |-> Void]
                ELSE IF a.st.err # NoPanic THEN [st |-> a.st, val |-> Void]
                ELSE [st |-> st1, val |-> Result(st1)]
      [] OTHER -> [st |-> st, val |-> Void]
\* The arguments of a call, lowered left to right
gen_args(m, st, args, vals) ==
    IF args = <<>> \/ st.err # NoPanic THEN [st |-> st, vals |-> vals]
    ELSE LET r == gen_expr(m, st, Head(args))
         IN  gen_args(m, r.st, Tail(args), Append(vals, r.val))

\* Section 4.3: lower(stmt, function, storage_table), or a panic. Nothing is
\* emitted after the terminator of the current block.
RECURSIVE gen_stmt(_, _, _), gen_block(_, _, _)
gen_stmt(m, st, stmt) ==
    CASE st.err # NoPanic \/ Terminated(st.insts) -> st
      [] stmt.tag = "Let" ->
            LET r == gen_expr(m, st, stmt.expr)
                declared == from_string(stmt.typ.s)
                ty == IF stmt.typ.some THEN BasicTypeEnum(declared)
                      ELSE TypeOfValue(r.st, r.val)
                slot == Slot(r.st.allocas + 1, ty)
                st1 == Emit(Emit(r.st, Alloca(slot, stmt.name)),
                            Store(slot, r.val))
            IN  IF r.st.err # NoPanic THEN r.st
                ELSE IF stmt.typ.some /\ declared = NoType
                THEN Panic(r.st, UnresolvedType)
                ELSE IF stmt.typ.some /\ Unimplemented(declared) # NoPanic
                THEN Panic(r.st, Unimplemented(declared))
                ELSE [st1 EXCEPT !.allocas = slot.n,
                                 !.ptrs = Insert(@, stmt.name, slot)]
      [] stmt.tag = "Return" ->
            IF stmt.expr = NoExpr THEN Emit(st, Ret(Void))
            ELSE LET r == gen_expr(m, st, stmt.expr)
                 IN  IF r.st.err # NoPanic THEN r.st ELSE Emit(r.st, Ret(r.val))
      [] stmt.tag = "Expression" -> gen_expr(m, st, stmt.expr).st
      [] stmt.tag = "If" ->
            LET c == gen_expr(m, st, stmt.expr)
                then == gen_block(m, Emit(Emit(c.st, CondBr(c.val)),
                                          Label("then")), stmt.body)
                fall == IF Terminated(then.insts) THEN then
                        ELSE Emit(then, Br("continue"))
            IN  IF c.st.err # NoPanic THEN c.st
                ELSE IF then.err # NoPanic THEN then
                ELSE Emit(fall, Label("continue"))
      [] OTHER -> st
gen_block(m, st, block) ==
    IF block = <<>> THEN st
    ELSE gen_block(m, gen_stmt(m, st, Head(block)), Tail(block))

\* ------------------------------------------------------------- the parser

Init ==
    /\ parse_tree = <<>>
    /\ depth = 0
    /\ pc = "parse"
    /\ idx = 1
    /\ module = <<>>
    /\ ptrs = EmptyPtrs
    /\ allocas = 0
    /\ pi = 1
    /\ bi = 1
    /\ err = NoPanic
    /\ output = FALSE
    /\ annotations = <<>>
    /\ resolved = <<>>

compiler_vars == <<pc, idx, module, ptrs, allocas, pi, bi, err, output>>
resolver_vars == <<annotations, resolved>>

Parsing == pc = "parse" /\ Weight(parse_tree) < MaxWeight
InFunction ==
    parse_tree # <<>> /\ parse_tree[Len(parse_tree)].tag = "Function"
InSignature ==
    /\ InFunction
    /\ parse_tree[Len(parse_tree)].ret = NoType
    /\ parse_tree[Len(parse_tree)].body = <<>>

\* The text goes on with a top-level statement (a function, so far without
\* parameters, return type and body).
ParseTopLevel ==
    /\ Parsing
    /\ depth = 0
    /\ \E s \in NonFunctions
                \cup {Function(n, NoParams, NoType, <<>>) : n \in FuncNames} :
          parse_tree' = Append(parse_tree, s)
    /\ UNCHANGED <<depth, compiler_vars, resolver_vars>>

\* ... with one more parameter of the function
ParseParam ==
    /\ Parsing
    /\ InSignature
    /\ \E p \in ParamDecls :
          parse_tree' =
              [parse_tree EXCEPT ![Len(parse_tree)].params =
                                     SomeParams(Append(@.list, p))]
    /\ UNCHANGED <<depth, compiler_vars, resolver_vars>>

\* ... with the return type of the function
ParseReturnType ==
    /\ Parsing
    /\ InSignature
    /\ \E t \in RetTypes :
          parse_tree' = [parse_tree EXCEPT ![Len(parse_tree)].ret = t]
    /\ UNCHANGED <<depth, compiler_vars, resolver_vars>>

\* ... with a statement of the function, in the innermost open block
ParseStmt ==
    /\ Parsing
    /\ InFunction
    /\ \E s \in SimpleStmts :
          parse_tree' = [parse_tree EXCEPT ![Len(parse_tree)].body =
                                               AppendAt(@, depth, s)]
    /\ UNCHANGED <<depth, compiler_vars, resolver_vars>>

\* ... with an if, whose block opens
ParseIf ==
    /\ Parsing
    /\ InFunction
    /\ \E c \in Conds :
          parse_tree' = [parse_tree EXCEPT ![Len(parse_tree)].body =
                                               AppendAt(@, depth, If(c, <<>>))]
    /\ depth' = depth + 1
    /\ UNCHANGED <<compiler_vars, resolver_vars>>

\* ... with the end of the innermost open if
ParseEndIf ==
    /\ pc = "parse"
    /\ depth > 0
    /\ depth' = depth - 1
    /\ UNCHANGED <<parse_tree, compiler_vars, resolver_vars>>

\* ------------------------------------------------------------------ main

\* The text is over and parsed; Compiler { ..., ptrs: HashMap::new(), ... }.
CreateCompiler ==
    /\ pc = "parse"
    /\ depth = 0
    /\ pc' = "start"
    /\ module' = <<>>
    /\ ptrs' = EmptyPtrs
    /\ UNCHANGED <<parse_tree, depth, idx, allocas, pi, bi, err, output,
                   resolver_vars>>

AddPrintFuncsSkipped ==
    /\ pc = "start"
    /\ pc' = "loop"
    /\ UNCHANGED <<parse_tree, depth, idx, module, ptrs, allocas, pi, bi, err,
                   output, resolver_vars>>

\* compiler.add_print_funcs();
AddPrintFuncs ==
    /\ pc = "start"
    /\ module' = DeclareAll(module, PrintFuncs)
    /\ pc' = "loop"
    /\ UNCHANGED <<parse_tree, depth, idx, ptrs, allocas, pi, bi, err, output,
                   resolver_vars>>

\* `statement` of the current iteration
statement == parse_tree[idx]
AtStatement == pc = "loop" /\ idx <= Len(parse_tree)
\* llvm_func: the function added last
llvm_func == Len(module)

\* Where the iteration goes on: the next parameter, the next body statement,
\* or the look at the last statement of the body.
Resume(stmt, p, b) ==
    IF stmt.params.some /\ p <= Len(stmt.params.list) THEN "params"
    ELSE IF b <= Len(stmt.body) THEN "body"
    ELSE "last"

TopLevelSkipped ==
    /\ AtStatement
    /\ statement.tag # "Function"
    /\ idx' = idx + 1
    /\ UNCHANGED <<parse_tree, depth, pc, module, ptrs, allocas, pi, bi, err,
                   output, resolver_vars>>

\* _ => panic!("non-function at top level")
TopLevelPanic ==
    /\ AtStatement
    /\ statement.tag # "Function"
    /\ pc' = "panic"
    /\ err' = NonFunctionAtTopLevel
    /\ UNCHANGED <<parse_tree, depth, idx, module, ptrs, allocas, pi, bi,
                   output, resolver_vars>>

\* A parameter or return type of unimplemented size panics while the
\* signature is translated.
UnimplementedPanic ==
    /\ AtStatement
    /\ statement.tag = "Function"
    /\ SignaturePanic(statement.params, statement.ret) # NoPanic
    /\ pc' = "panic"
    /\ err' = SignaturePanic(statement.params, statement.ret)
    /\ UNCHANGED <<parse_tree, depth, idx, module, ptrs, allocas, pi, bi,
                   output, resolver_vars>>

\* The signature is translated, the function added to the module with its
\* linkage, and the builder positioned at the end of its entry block.
DeclareFunction ==
    /\ AtStatement
    /\ statement.tag = "Function"
    /\ SignaturePanic(statement.params, statement.ret) = NoPanic
    /\ module' = add_function(
           module, statement.name,
           [i \in 1..Len(statement.params.list) |->
                BasicTypeEnum(statement.params.list[i][1])],
           BasicTypeEnum(statement.ret), LinkageOf(statement.name))
    /\ pi' = 1
    /\ bi' = 1
    /\ pc' = Resume(statement, 1, 1)
    /\ UNCHANGED <<parse_tree, depth, idx, ptrs, allocas, err, output,
                   resolver_vars>>

\* One iteration of `for (index, (typ, name)) in p.iter().enumerate()`:
\* build_alloca, build_store of the incoming argument, ptrs.insert.
MaterializeParam ==
    /\ pc = "params"
    /\ LET typ == statement.params.list[pi][1]
           name == statement.params.list[pi][2]
           alloca == Slot(allocas + 1, BasicTypeEnum(typ))
       IN  IF Unimplemented(typ) # NoPanic
           THEN /\ pc' = "panic"
                /\ err' = Unimplemented(typ)
                /\ UNCHANGED <<module, ptrs, allocas, pi>>
           ELSE /\ module' =
                       [module EXCEPT ![llvm_func].insts =
                            @ \o <<Alloca(alloca, "param"),
                                   Store(alloca, Value("arg", pi - 1))>>]
                /\ ptrs' = Insert(ptrs, name, alloca)
                /\ allocas' = alloca.n
                /\ pi' = pi + 1
                /\ pc' = Resume(statement, pi + 1, bi)
                /\ err' = err
    /\ UNCHANGED <<parse_tree, depth, idx, bi, output, resolver_vars>>

\* One iteration of `for stmt in &body`: compiler.gen_stmt(&llvm_func, stmt)
GenStmt ==
    /\ pc = "body"
    /\ LET st == gen_stmt(module,
                          Gen(module[llvm_func].insts, ptrs, allocas, NoPanic),
                          statement.body[bi])
       IN  /\ module' = [module EXCEPT ![llvm_func].insts = st.insts]
           /\ ptrs' = st.ptrs
           /\ allocas' = st.allocas
           /\ err' = st.err
           /\ bi' = bi + 1
           /\ pc' = IF st.err # NoPanic THEN "panic"
                    ELSE Resume(statement, pi, bi + 1)
    /\ UNCHANGED <<parse_tree, depth, idx, pi, output, resolver_vars>>

LastStatementAlwaysReturns(body) ==
    IF body = <<>> THEN "panic" ELSE "return"

\* What `match *x.clone()` on body.last().unwrap() does: "panic" on an empty
\* body, "continue" on a Return, "return" (build_return(None)) otherwise.
LastStatement(body) ==
    IF body = <<>> THEN "panic"
    ELSE IF body[Len(body)].tag = "Return" THEN "continue"
    ELSE "return"

\* The end of the iteration: the implicit return.
ImplicitReturn ==
    /\ pc = "last"
    /\ LET what == LastStatement(statement.body)
       IN  /\ pc' = IF what = "panic" THEN "panic" ELSE "loop"
           /\ err' = IF what = "panic" THEN UnwrapOnNone ELSE err
           /\ idx' = IF what = "panic" THEN idx ELSE idx + 1
           /\ module' = IF what = "return"
                        THEN [module EXCEPT ![llvm_func].insts =
                                  Append(@, Ret(Void))]
                        ELSE module
    /\ UNCHANGED <<parse_tree, depth, ptrs, allocas, pi, bi, output,
                   resolver_vars>>

\* After the loop: the module is printed to .build/<name>.ll, compiled and
\* linked.
WriteOutput ==
    /\ pc = "loop"
    /\ idx > Len(parse_tree)
    /\ output' = TRUE
    /\ pc' = "done"
    /\ UNCHANGED <<parse_tree, depth, idx, module, ptrs, allocas, pi, bi, err,
                   resolver_vars>>

Next ==
    \/ ParseTopLevel
    \/ ParseParam
    \/ ParseReturnType
    \/ ParseStmt
    \/ ParseIf
    \/ ParseEndIf
    \/ CreateCompiler
    \/ AddPrintFuncs
    \/ TopLevelPanic
    \/ UnimplementedPanic
    \/ DeclareFunction
    \/ MaterializeParam
    \/ GenStmt
    \/ ImplicitReturn
    \/ WriteOutput

Spec == Init /\ [][Next]_vars

\* ------------------------------------------------------ the type resolver

\* The annotation strings the resolver is asked about: the eight spellings
\* of Type::from_string and others.
TypeSpellings ==
    {"int", "int32", "int64", "float", "float32", "float64", "string", "bool",
     "", "Int", "int16", "integer", "float128", "double", "str", "boolean",
     "void"}

RECURSIVE SeqsUpTo(_, _)
SeqsUpTo(S, n) ==
    IF n = 0 THEN {<<>>}
    ELSE LET shorter == SeqsUpTo(S, n - 1)
         IN  shorter \cup {Append(q, x) : q \in {r \in shorter : Len(r) = n - 1},
                                          x \in S}

InitResolve ==
    /\ annotations \in SeqsUpTo(TypeSpellings, MaxAnnotations)
    /\ resolved = <<>>
    /\ parse_tree = <<>>
    /\ depth = 0
    /\ pc = "resolve"
    /\ idx = 1
    /\ module = <<>>
    /\ ptrs = EmptyPtrs
    /\ allocas = 0
    /\ pi = 1
    /\ bi = 1
    /\ err = NoPanic
    /\ output = FALSE

\* Type::from_string(typ) of the next annotation
Resolve ==
    /\ pc = "resolve"
    /\ Len(resolved) < Len(annotations)
    /\ resolved' =
           Append(resolved, from_string(annotations[Len(resolved) + 1]))
    /\ UNCHANGED <<parse_tree, depth, compiler_vars, annotations>>

NextResolve == Resolve

SpecResolve == InitResolve /\ [][NextResolve]_vars

\* ------------------------------------------------------------------ claims

\* C1. Type::from_string returns the documented type for each recognized
\* spelling (int, int32 -> Integer(32); int64 -> Integer(64); float, float32
\* -> Float(32); float64 -> Float(64); string -> String; bool -> Boolean) and
\* None for every other string; an Integer or Float it returns has width 32
\* or 64.
DocumentedTypes ==
    {<<"int", "Integer", 32>>, <<"int32", "Integer", 32>>,
     <<"int64", "Integer", 64>>, <<"float", "Float", 32>>,
     <<"float32", "Float", 32>>, <<"float64", "Float", 64>>,
     <<"string", "String", 0>>, <<"bool", "Boolean", 0>>}
C1_FromStringIsTheDocumentedTable ==
    \A i \in 1..Len(resolved) :
        LET s == annotations[i]
            t == resolved[i]
        IN  /\ \A d \in DocumentedTypes :
                   d[1] = s => t.kind = d[2] /\ t.size = d[3]
            /\ (\A d \in DocumentedTypes : d[1] # s) => t.kind = "None"
            /\ t.kind \in {"Integer", "Float"} => t.size \in {32, 64}
C1_Witness ==
    /\ Len(resolved) = 2
    /\ annotations = <<"int", "int16">>
    /\ resolved[1].kind = "Integer"
    /\ resolved[2].kind = "None"

\* The functions the loop of main() has added come after the built-ins: the
\* function of top-level statement k is module[BuiltinCount + k].
BuiltinCount == Len(PrintFuncs)
FunctionOf(k) == module[BuiltinCount + k]
\* The top-level statements whose iteration is over
Lowered == 1..(idx - 1)
Compiling == pc \notin {"parse", "resolve"}
ReturnsIn(insts) == {i \in 1..Len(insts) : insts[i].op = "ret"}
EndsWithReturn(body) == body # <<>> /\ body[Len(body)].tag = "Return"

\* C2. When the lowering of a function starts, compiler.ptrs is empty: no
\* name bound by a parameter or a Let of an earlier function is left in it.
C2_PtrsEmptyWhenFunctionStarts ==
    (AtStatement /\ statement.tag = "Function") => DOMAIN ptrs = {}

\* C3. For a function whose body is empty or does not end with a Return,
\* once its body statements are lowered the lowering completes, with one
\* void return appended to the function.
C3_ImplicitVoidReturn ==
    [][(pc = "last" /\ ~EndsWithReturn(statement.body))
        => /\ pc' = "loop"
           /\ idx' = idx + 1
           /\ module' = [module EXCEPT ![llvm_func].insts =
                             Append(@, Ret(Void))]]_vars

\* The lowered value of e is what the instruction at position i carries.
Carries(insts, i, e) ==
    CASE e.tag = "Number" -> insts[i].val = Value("f64", 0)
      [] e.tag = "FunctionCall" ->
            /\ insts[i].val = Value("reg", i - 1)
            /\ insts[i - 1].op = "call"
            /\ insts[i - 1].name = e.name
      [] e.tag = "Identifier" ->
            /\ insts[i].val = Value("reg", i - 1)
            /\ insts[i - 1].op = "load"
            /\ insts[i - 1].name = e.name
      [] OTHER -> FALSE

\* The function of a lowered statement has one return instruction, its
\* last, and it carries the value of the expression of the last statement.
OneReturnOfLast(k) ==
    LET body == parse_tree[k].body
        insts == FunctionOf(k).insts
    IN  /\ ReturnsIn(insts) = {Len(insts)}
        /\ Carries(insts, Len(insts), body[Len(body)].expr)

\* C4, as claimed. A function whose last body statement is Return(Some(e))
\* has exactly one return instruction, carrying the lowered value of e, and
\* no trailing void return.
C4_OneReturnWheneverLastIsReturn ==
    \A k \in Lowered :
        (EndsWithReturn(parse_tree[k].body)
         /\ parse_tree[k].body[Len(parse_tree[k].body)].expr # NoExpr)
        => OneReturnOfLast(k)

\* The Return statements of a block, those of its If bodies included
RECURSIVE ReturnCount(_)
ReturnCount(block) ==
    IF block = <<>> THEN 0
    ELSE (IF Head(block).tag = "Return" THEN 1 ELSE 0)
         + ReturnCount(Head(block).body) + ReturnCount(Tail(block))

\* C4, amended. A function whose last body statement is Return(Some(e)) and
\* whose body has no other Return statement, at any depth, has exactly one
\* return instruction, carrying the lowered value of e, and no trailing void
\* return.
C4_OneReturnWhenOnlyReturnIsLast ==
    \A k \in Lowered :
        (/\ EndsWithReturn(parse_tree[k].body)
         /\ parse_tree[k].body[Len(parse_tree[k].body)].expr # NoExpr
         /\ ReturnCount(parse_tree[k].body) = 1)
        => OneReturnOfLast(k)
C4_Witness ==
    /\ pc = "done"
    /\ Len(parse_tree) = 1
    /\ Len(parse_tree[1].body) = 2
    /\ parse_tree[1].body[1].tag = "If"
    /\ parse_tree[1].body[2] = Return(FunctionCall("f", <<>>))
    /\ Len(FunctionOf(1).insts) > 2

\* The functions an expression, a statement (its If body included) calls
RECURSIVE CalleesOfExpr(_), CalleesOfArgs(_), CalleesOf(_), CalleesOfBlock(_)
CalleesOfExpr(e) ==
    (IF e.tag = "FunctionCall" THEN {e.name} ELSE {}) \cup CalleesOfArgs(e.args)
CalleesOfArgs(args) ==
    IF args = <<>> THEN {}
    ELSE CalleesOfExpr(Head(args)) \cup CalleesOfArgs(Tail(args))
CalleesOf(stmt) == CalleesOfExpr(stmt.expr) \cup CalleesOfBlock(stmt.body)
CalleesOfBlock(block) ==
    IF block = <<>> THEN {}
    ELSE CalleesOf(Head(block)) \cup CalleesOfBlock(Tail(block))

\* The names of the functions among the first n top-level statements
DeclaredUpTo(n) ==
    {parse_tree[k].name : k \in {j \in 1..n : parse_tree[j].tag = "Function"}}
\* The statement whose lowering panicked
PanickedStmt == statement.body[bi - 1]
CallPanicked == pc = "panic" /\ err = UndeclaredFunction

\* C5, as claimed. A call to a user function declared anywhere in the module
\* resolves when it is lowered, the callee being declared before the caller,
\* the caller itself, or declared after the caller: a call that does not
\* resolve is a call of a function the module declares nowhere.
C5_CallsResolveInAnyOrder ==
    CallPanicked
    => \E c \in CalleesOf(PanickedStmt) : c \notin DeclaredUpTo(Len(parse_tree))

\* C5, amended. A call to a user function resolves when it is lowered if the
\* callee is declared before the caller or is the caller itself: a call that
\* does not resolve is a call of a function declared neither before the
\* caller nor as the caller (a callee declared only after the caller does
\* not resolve).
C5_CallsResolveBackwardAndSelf ==
    CallPanicked => \E c \in CalleesOf(PanickedStmt) : c \notin DeclaredUpTo(idx)
C5_Witness ==
    /\ pc = "done"
    /\ Len(parse_tree) = 2
    /\ parse_tree[1].name = "f"
    /\ parse_tree[2].name = "main"
    /\ \E i \in 1..Len(FunctionOf(1).insts) :
          FunctionOf(1).insts[i].op = "call" /\ FunctionOf(1).insts[i].name = "f"
    /\ \E i \in 1..Len(FunctionOf(2).insts) :
          FunctionOf(2).insts[i].op = "call" /\ FunctionOf(2).insts[i].name = "f"

\* C6. A function the loop adds to the module has external (default)
\* linkage if its name is main and private linkage otherwise, whatever its
\* parameters, return type and position.
C6_LinkageByName ==
    Compiling =>
        \A i \in (BuiltinCount + 1)..Len(module) :
            /\ module[i].name = parse_tree[i - BuiltinCount].name
            /\ module[i].name = "main" => module[i].linkage = "External"
            /\ module[i].name # "main" => module[i].linkage = "Private"
C6_Witness ==
    /\ Len(module) = BuiltinCount + 2
    /\ FunctionOf(1).name = "f" /\ FunctionOf(1).linkage = "Private"
    /\ FunctionOf(1).params # <<>>
    /\ FunctionOf(2).name = "main" /\ FunctionOf(2).linkage = "External"

\* The function of a lowered statement is complete: its last instruction is
\* a return.
Complete(k) ==
    /\ Len(module) >= BuiltinCount + k
    /\ FunctionOf(k).insts # <<>>
    /\ FunctionOf(k).insts[Len(FunctionOf(k).insts)].op = "ret"
NonFunctionsAt ==
    {k \in 1..Len(parse_tree) : parse_tree[k].tag # "Function"}

\* C7. The compilation aborts with "non-function at top level" at the first
\* top-level statement that is not a Function, in source order: when the
\* loop comes to it, it panics with that message; the functions before it
\* have been added to the module and lowered; the loop never gets past it,
\* nothing happens after the panic and no output is written.
C7_AbortsAtFirstNonFunction ==
    /\ [](Compiling =>
            /\ \A k \in NonFunctionsAt : idx <= k /\ ~output /\ pc # "done"
            /\ err = NonFunctionAtTopLevel
               => /\ pc = "panic"
                  /\ idx \in NonFunctionsAt
                  /\ Len(module) = BuiltinCount + idx - 1
                  /\ \A k \in 1..(idx - 1) :
                         parse_tree[k].tag = "Function" /\ Complete(k))
    /\ [][/\ (AtStatement /\ statement.tag # "Function")
             => /\ pc' = "panic"
                /\ err' = NonFunctionAtTopLevel
                /\ UNCHANGED <<idx, module, output>>
          /\ pc # "panic"]_vars
C7_Witness ==
    /\ pc = "panic"
    /\ err = NonFunctionAtTopLevel
    /\ idx = 2
    /\ Len(parse_tree) = 3
    /\ Len(module) = BuiltinCount + 1

\* C8. The built-ins are in the function table before the first top-level
\* statement is processed: in every state of the loop they are there, found
\* by name.
C8_BuiltinsBeforeDeclarations ==
    pc \in {"loop", "params", "body", "last", "panic", "done"}
    => \A i \in 1..Len(PrintFuncs) :
           /\ get_function(module, PrintFuncs[i]) = i
           /\ module[i].insts = <<>>
C8_Witness ==
    /\ pc = "body"
    /\ idx = 1
    /\ \E i \in 1..Len(module[llvm_func].insts) :
          /\ module[llvm_func].insts[i].op = "call"
          /\ module[llvm_func].insts[i].name = "printf"

\* A type main() has no IR type for
BadWidth(typ) == typ.kind \in {"Integer", "Float"} /\ typ.size \notin {32, 64}
HasBadWidth(stmt) ==
    \/ \E i \in 1..Len(stmt.params.list) : BadWidth(stmt.params.list[i][1])
    \/ BadWidth(stmt.ret)

\* C9. Lowering a function with an Integer or Float of a width other than 32
\* and 64 among its parameter types or as its return type panics
\* (unimplemented size) before the function is added to the module, before
\* any block or instruction of it is emitted and before the storage table
\* is modified.
C9_UnimplementedSizeAbortsFirst ==
    [][(AtStatement /\ statement.tag = "Function" /\ HasBadWidth(statement))
        => /\ pc' = "panic"
           /\ err' \in {UnimplementedInt, UnimplementedFloat}
           /\ UNCHANGED <<module, ptrs, allocas, idx, output>>]_vars
C9_Witness ==
    /\ pc = "panic"
    /\ err = UnimplementedFloat
    /\ idx = 2
    /\ BadWidth(statement.ret)
    /\ Len(module) = BuiltinCount + 1
    /\ DOMAIN ptrs = {"x"}

\* The first 2 * n instructions of a function are, for parameter i = 1..n in
\* this order, the alloca of a slot of the IR type of the parameter and the
\* store of incoming argument i - 1 into it, the slots being new ones.
Materialized(stmt, insts, n) ==
    /\ Len(insts) >= 2 * n
    /\ \A i \in 1..n :
          /\ insts[2 * i - 1].op = "alloca"
          /\ insts[2 * i - 1].ty = BasicTypeEnum(stmt.params.list[i][1])
          /\ insts[2 * i].op = "store"
          /\ insts[2 * i].slot = insts[2 * i - 1].slot
          /\ insts[2 * i].val = Value("arg", i - 1)
          /\ i > 1 => insts[2 * i - 1].slot.n = insts[2 * i - 3].slot.n + 1
\* Each parameter name is bound to the slot of the last parameter of that
\* name.
BoundToLast(stmt, insts, table) ==
    \A i \in 1..Len(stmt.params.list) :
        LET name == stmt.params.list[i][2]
            last == CHOOSE j \in 1..Len(stmt.params.list) :
                        /\ stmt.params.list[j][2] = name
                        /\ \A l \in 1..Len(stmt.params.list) :
                               stmt.params.list[l][2] = name => l <= j
        IN  name \in DOMAIN table /\ table[name] = insts[2 * last - 1].slot

\* C10. The parameters p_0..p_{n-1} of a function are materialized in the
\* entry block before any body statement is lowered, in declaration order:
\* one stack slot of the IR type of p_i, the store of argument i into it,
\* and the binding of the name of p_i to it; n slots are allocated, and of
\* two parameters of one name the later one is the one bound.
C10_ParametersMaterializedInOrder ==
    /\ pc = "params"
       => /\ Len(module[llvm_func].insts) = 2 * (pi - 1)
          /\ Materialized(statement, module[llvm_func].insts, pi - 1)
          /\ bi = 1
    /\ (pc \in {"body", "last"} /\ bi = 1)
       => /\ Len(module[llvm_func].insts) = 2 * Len(statement.params.list)
          /\ Materialized(statement, module[llvm_func].insts,
                          Len(statement.params.list))
          /\ BoundToLast(statement, module[llvm_func].insts, ptrs)
    /\ Compiling
       => \A k \in Lowered :
              /\ Materialized(parse_tree[k], FunctionOf(k).insts,
                              Len(parse_tree[k].params.list))
              /\ Cardinality({i \in 1..Len(FunctionOf(k).insts) :
                                  /\ FunctionOf(k).insts[i].op = "alloca"
                                  /\ FunctionOf(k).insts[i].name = "param"})
                 = Len(parse_tree[k].params.list)
C10_Witness ==
    /\ pc = "body"
    /\ bi = 1
    /\ Len(statement.params.list) = 2
    /\ statement.params.list[1][2] = statement.params.list[2][2]
    /\ statement.params.list[1][1] # statement.params.list[2][1]
    /\ ptrs[statement.params.list[2][2]].ty
       = BasicTypeEnum(statement.params.list[2][1])

====
